---- MODULE Spec2Model ----
(***************************************************************************)
(* A model of the QCoDeS driver for the Oxford Instruments MercuryiPS      *)
(* magnet power supply (qcodes/instrument_drivers/oxford/                  *)
(* MercuryiPS_VISA.py).                                                    *)
(*                                                                         *)
(* Strings are sequences of one-character strings, so that the driver's    *)
(* string handling (substring tests, split, replace, format) is computed   *)
(* character by character as Python computes it.                           *)
(***************************************************************************)
EXTENDS Integers, Sequences, FiniteSets, TLC

VARIABLES
    slaves,     \* the UIDs of the registered MercurySlavePS channels
    dev,        \* the instrument: UID -> ramp status token it holds
    unsafe,     \* the instrument received ACTN:RTOS while it held CLMP
    writers,    \* who sent the instrument a SET of ACTN: the callers of
                \* ramp_status, and "ask" for a direct call of ask
    target,     \* MercuryiPS._target_vector
    limits,     \* MercuryiPS._field_limits (the name of the predicate)
    pending,    \* caller -> the call of _ramp_status_setter it is inside of
    op,         \* the call that made the last step
    sent,       \* the commands that call has written to the transport
    replies,    \* the raw replies that call has read from the transport
    logged,     \* the number of log.error records of that call
    outcome,    \* how that call ended: "ok" or the exception raised;
                \* "pending" while it waits between two round trips
    result,     \* what that call returned
    input       \* the arguments of a call of ask or _signal_parser to come

vars == <<slaves, dev, unsafe, writers, target, limits, pending, op, sent,
          replies, logged, outcome, result, input>>

-----------------------------------------------------------------------------
(* Bounds of the model.                                                    *)

\* replies of the ask specification are made of at most MaxParts fragments
MaxParts == 3
\* replies of the parser specification have at most MaxRespLen characters
MaxRespLen == 4
\* field components and target values range over -MaxField..MaxField
MaxField == 2
\* numeric values written to a sub-supply range over 0..MaxValue
MaxValue == 1

-----------------------------------------------------------------------------
(* Literal strings of the source.                                          *)

sEmpty == <<>>
sColon == <<":">>
sREAD == <<"R", "E", "A", "D">>
sSET == <<"S", "E", "T">>
sDEV == <<"D", "E", "V">>
sPSU == <<"P", "S", "U">>
sSTAT == <<"S", "T", "A", "T">>
sREADc == <<"R", "E", "A", "D", ":">>
sSTATc == <<"S", "T", "A", "T", ":">>
sINVALID == <<"I", "N", "V", "A", "L", "I", "D">>
sVALID == <<"V", "A", "L", "I", "D">>
sIDN == <<"*", "I", "D", "N", "?">>
sGRPX == <<"G", "R", "P", "X">>
sGRPY == <<"G", "R", "P", "Y">>
sGRPZ == <<"G", "R", "P", "Z">>
sHOLD == <<"H", "O", "L", "D">>
sRTOS == <<"R", "T", "O", "S">>
sCLMP == <<"C", "L", "M", "P">>
sRTOZ == <<"R", "T", "O", "Z">>
sACTN == <<"A", "C", "T", "N">>
sVOLT == <<"S", "I", "G", ":", "V", "O", "L", "T">>
sCURR == <<"S", "I", "G", ":", "C", "U", "R", "R">>
sPCUR == <<"S", "I", "G", ":", "P", "C", "U", "R">>
sCSET == <<"S", "I", "G", ":", "C", "S", "E", "T">>
sFSET == <<"S", "I", "G", ":", "F", "S", "E", "T">>
sRCST == <<"S", "I", "G", ":", "R", "C", "S", "T">>
sRFST == <<"S", "I", "G", ":", "R", "F", "S", "T">>
sFLD == <<"S", "I", "G", ":", "F", "L", "D">>
sPFLD == <<"S", "I", "G", ":", "P", "F", "L", "D">>
sATOB == <<"A", "T", "O", "B">>

-----------------------------------------------------------------------------
(* Python's str operations, on sequences of characters.                    *)

\* s[i:].startswith(pat), with i counted from 1
MatchAt(s, pat, i) ==
    /\ i + Len(pat) - 1 <= Len(s)
    /\ \A k \in 1..Len(pat) : s[i + k - 1] = pat[k]

\* pat in s
str_contains(s, pat) == \E i \in 1..(Len(s) - Len(pat) + 1) : MatchAt(s, pat, i)

\* s.endswith(pat)
str_endswith(s, pat) ==
    Len(pat) <= Len(s) /\ MatchAt(s, pat, Len(s) - Len(pat) + 1)

\* s.replace(old, new) for a non-empty old: the non-overlapping occurrences
\* of old, found left to right, are each replaced
RECURSIVE str_replace_from(_, _, _, _)
str_replace_from(s, old, new, i) ==
    IF i > Len(s) THEN <<>>
    ELSE IF MatchAt(s, old, i)
         THEN new \o str_replace_from(s, old, new, i + Len(old))
         ELSE <<s[i]>> \o str_replace_from(s, old, new, i + 1)

str_replace(s, old, new) == str_replace_from(s, old, new, 1)

\* s.split(sep) for a one-character sep: the fields between the separators
\* (a string without the separator is one field, the empty string too)
RECURSIVE str_split_from(_, _, _, _)
str_split_from(s, sep, i, cur) ==
    IF i > Len(s) THEN <<cur>>
    ELSE IF s[i] = sep
         THEN <<cur>> \o str_split_from(s, sep, i + 1, <<>>)
         ELSE str_split_from(s, sep, i + 1, Append(cur, s[i]))

str_split(s, sep) == str_split_from(s, sep, 1, <<>>)

\* ''.join(parts)
RECURSIVE str_concat(_)
str_concat(parts) ==
    IF parts = <<>> THEN <<>> ELSE Head(parts) \o str_concat(Tail(parts))

\* sep.join(parts)
RECURSIVE str_join(_, _)
str_join(sep, parts) ==
    IF Len(parts) = 0 THEN <<>>
    ELSE IF Len(parts) = 1 THEN parts[1]
    ELSE parts[1] \o sep \o str_join(sep, Tail(parts))

\* the decimal digits of a natural number
DigitChar == <<"0", "1", "2", "3", "4", "5", "6", "7", "8", "9">>

RECURSIVE nat_str(_)
nat_str(n) ==
    IF n < 10 THEN <<DigitChar[n + 1]>>
    ELSE nat_str(n \div 10) \o <<DigitChar[(n % 10) + 1]>>

\* '{}'.format(n) for an int n
int_format(n) == IF n < 0 THEN <<"-">> \o nat_str(0 - n) ELSE nat_str(n)

-----------------------------------------------------------------------------
(* _response_preparser and _signal_parser.                                 *)

_response_preparser(bare_resp) == str_replace(bare_resp, sColon, sEmpty)

numchars == {"0", "1", "2", "3", "4", "5", "6", "7", "8", "9", ".", "-"}

IsDigit(c) == c \in {"0", "1", "2", "3", "4", "5", "6", "7", "8", "9"}

DigitValue(c) == CHOOSE n \in 0..9 : DigitChar[n + 1] = c

\* the factor's power of ten for a scale character of scale_to_factor
scale_chars == {"n", "u", "m", "k", "M"}

scale_to_exp(c) ==
    CASE c = "n" -> -9
      [] c = "u" -> -6
      [] c = "m" -> -3
      [] c = "k" -> 3
      [] c = "M" -> 6

\* [d for d in response if d in numchars]
RECURSIVE filter_numchars(_)
filter_numchars(s) ==
    IF s = <<>> THEN <<>>
    ELSE IF Head(s) \in numchars
         THEN <<Head(s)>> \o filter_numchars(Tail(s))
         ELSE filter_numchars(Tail(s))

\* response[n:]
str_from(s, n) == IF n >= Len(s) THEN <<>> ELSE SubSeq(s, n + 1, Len(s))

\* A real number is mant * 10^exp / den, kept in normal form: mant has no
\* factor 10 (or is 0 with exp 0); den is 1, or 60 for a per-minute rate.
RECURSIVE NormMant(_, _)
NormMant(mant, exp) ==
    IF mant = 0 THEN [mant |-> 0, exp |-> 0]
    ELSE IF mant % 10 = 0 THEN NormMant(mant \div 10, exp + 1)
    ELSE [mant |-> mant, exp |-> exp]

\* the digits of s read as a natural number
RECURSIVE digits_value(_)
digits_value(s) ==
    IF s = <<>> THEN 0
    ELSE 10 * digits_value(SubSeq(s, 1, Len(s) - 1)) + DigitValue(s[Len(s)])

\* float(text) for a text made of numchars only: an optional leading '-',
\* then digits with at most one '.', and at least one digit
py_float(text) ==
    LET neg == text # <<>> /\ text[1] = "-"
        body == IF neg THEN Tail(text) ELSE text
        dots == {i \in 1..Len(body) : body[i] = "."}
        wellformed ==
            /\ \A i \in 1..Len(body) : IsDigit(body[i]) \/ body[i] = "."
            /\ Cardinality(dots) <= 1
            /\ \E i \in 1..Len(body) : IsDigit(body[i])
    IN  IF ~wellformed THEN [ok |-> FALSE, mant |-> 0, exp |-> 0]
        ELSE LET dot == IF dots = {} THEN Len(body) + 1
                        ELSE CHOOSE i \in dots : TRUE
                 ds == SubSeq(body, 1, dot - 1) \o SubSeq(body, dot + 1, Len(body))
                 frac == IF dots = {} THEN 0 ELSE Len(body) - dot
                 m == digits_value(ds)
                 n == NormMant(m, 0 - frac)
             IN  [ok |-> TRUE, mant |-> IF neg THEN 0 - n.mant ELSE n.mant,
                  exp |-> n.exp]

\* What a call returns: nothing, a string, a ramp status or a number.
NoValue ==
    [kind |-> "none", str |-> <<>>, status |-> "", mant |-> 0, exp |-> 0,
     den |-> 1]
StrValue(s) == [NoValue EXCEPT !.kind = "str", !.str = s]
StatusValue(s) == [NoValue EXCEPT !.kind = "status", !.status = s]
NumValue(mant, exp, den) ==
    [NoValue EXCEPT !.kind = "num", !.mant = mant, !.exp = exp, !.den = den]

\* _signal_parser(our_scaling, response), our_scaling being 1/our_den:
\* [raised, value]
_signal_parser(our_den, response0) ==
    LET response == _response_preparser(response0)
        digits == filter_numchars(response)
        scale_and_unit == str_from(response, Len(digits))
        their_exp == IF scale_and_unit = <<>> THEN 0
                     ELSE IF scale_and_unit[1] \in scale_chars
                          THEN scale_to_exp(scale_and_unit[1])
                          ELSE 0
        f == py_float(digits)
    IN  IF ~f.ok THEN [raised |-> "ValueError: float", value |-> NoValue]
        ELSE [raised |-> "none",
              value |-> NumValue(f.mant,
                                 IF f.mant = 0 THEN 0 ELSE f.exp + their_exp,
                                 our_den)]

-----------------------------------------------------------------------------
(* MercuryiPS.ask: the classification of the raw reply.                    *)

\* second_to_last_field with the last field taken: resp.split(':')[-1]
last_field(resp) ==
    LET fields == str_split(resp, ":")
    IN  [raised |-> "none", val |-> fields[Len(fields)]]

\* resp.split(':')[-2]
second_to_last_field(resp) ==
    LET fields == str_split(resp, ":")
    IN  IF Len(fields) < 2 THEN [raised |-> "IndexError", val |-> <<>>]
        ELSE [raised |-> "none", val |-> fields[Len(fields) - 1]]

\* strip_echo with the echo removed at the start of the reply only
strip_echo_prefix(resp, base_cmd) ==
    LET p == sSTATc \o base_cmd
    IN  IF MatchAt(resp, p, 1) THEN str_from(resp, Len(p)) ELSE resp

\* resp.replace('STAT:{}'.format(base_cmd), '')
strip_echo(resp, base_cmd) == str_replace(resp, sSTATc \o base_cmd, sEmpty)

\* ask_branch with the acknowledgment looked for first
ask_branch_valid_first(resp) ==
    IF str_endswith(resp, sVALID) THEN "set"
    ELSE IF str_contains(resp, sINVALID) THEN "invalid"
    ELSE "read"

\* which branch of ask a reply takes
ask_branch(resp) ==
    IF str_contains(resp, sINVALID) THEN "invalid"
    ELSE IF str_endswith(resp, sVALID) THEN "set"
    ELSE "read"

\* ask(cmd), the transport answering resp: [raised, val, logged]
ask(cmd, resp) ==
    LET branch == ask_branch(resp)
    IN  IF branch = "invalid"
        THEN [raised |-> "none", val |-> resp, logged |-> 1]
        ELSE IF branch = "set"
        THEN LET f == second_to_last_field(resp)
             IN  [raised |-> f.raised, val |-> f.val, logged |-> 0]
        ELSE LET base_cmd == str_replace(cmd, sREADc, sEmpty)
             IN  [raised |-> "none", val |-> strip_echo(resp, base_cmd),
                  logged |-> 0]

-----------------------------------------------------------------------------
(* MercurySlavePS: the parameters of a sub-supply and its command strings. *)

ParamNames ==
    {"voltage", "current", "current_persistent", "current_target",
     "field_target", "current_ramp_rate", "field_ramp_rate", "field",
     "field_persistent", "ATOB", "ramp_status"}

\* the get_cmd of each parameter: the command _param_getter is bound to
get_cmd(p) ==
    CASE p = "voltage" -> sVOLT
      [] p = "current" -> sCURR
      [] p = "current_persistent" -> sPCUR
      [] p = "current_target" -> sCSET
      [] p = "field_target" -> sFSET
      [] p = "current_ramp_rate" -> sRCST
      [] p = "field_ramp_rate" -> sRFST
      [] p = "field" -> sFLD
      [] p = "field_persistent" -> sPFLD
      [] p = "ATOB" -> sATOB
      [] p = "ramp_status" -> sACTN

\* the parameters registered with a set_cmd bound to _param_setter
SettableParams == {"field_target", "field_ramp_rate", "ATOB"}

\* set_cmd with the target field written to the target current
set_cmd_swapped(p) ==
    CASE p = "field_target" -> sCSET
      [] p = "field_ramp_rate" -> sRFST
      [] p = "ATOB" -> sATOB

\* the set_cmd of a parameter of SettableParams
set_cmd(p) ==
    CASE p = "field_target" -> sFSET
      [] p = "field_ramp_rate" -> sRFST
      [] p = "ATOB" -> sATOB

\* get_parser=partial(_signal_parser, 1) or partial(_signal_parser, 1/60):
\* the denominator of our_scaling
get_den(p) == IF p \in {"current_ramp_rate", "field_ramp_rate"} THEN 60 ELSE 1

\* set_parser=lambda x: x*60 of field_ramp_rate; no set_parser elsewhere
set_parser(p, x) == IF p = "field_ramp_rate" THEN x * 60 ELSE x

\* val_mapping of ramp_status
StatusNames == {"HOLD", "TO SET", "CLAMP", "TO ZERO"}

val_mapping(status) ==
    CASE status = "HOLD" -> sHOLD
      [] status = "TO SET" -> sRTOS
      [] status = "CLAMP" -> sCLMP
      [] status = "TO ZERO" -> sRTOZ

Tokens == {val_mapping(s) : s \in StatusNames}

\* the inverse of val_mapping, applied to what the get returns
inverse_val_mapping(raw) ==
    IF raw \in Tokens
    THEN [raised |-> "none",
          val |-> CHOOSE s \in StatusNames : val_mapping(s) = raw]
    ELSE [raised |-> "KeyError", val |-> ""]

\* uid_refused with no check of the UID
uid_never_refused(UID) == FALSE

\* MercurySlavePS.__init__: the UID is refused when it holds a colon
uid_refused(UID) == str_contains(UID, sColon)

\* _param_getter: the dressed READ command
dress_read(uid, cmd) == str_join(sColon, <<sREAD, sDEV, uid, sPSU, cmd>>)

\* _param_setter: the dressed SET command
dress_set(uid, cmd, value) ==
    str_join(sColon, <<sSET, sDEV, uid, sPSU, cmd, value>>)

-----------------------------------------------------------------------------
(* The instrument, as far as the driver sees it.                           *)

\* the reply to a READ command: the command echoed without READ, then the value
read_reply(cmd, payload) ==
    sSTATc \o str_from(cmd, Len(sREADc)) \o sColon \o payload

\* the acknowledgment of a SET command
set_reply(cmd) == sSTATc \o cmd \o sColon \o sVALID

\* the reply to a command the instrument rejects
invalid_reply(cmd) == sSTATc \o cmd \o sColon \o sINVALID

\* the readings the instrument reports in this model
Readings == {<<"1", ".", "5", "m", "A">>, <<"-", "3", "k">>}

-----------------------------------------------------------------------------
(* One call of a sub-supply parameter: what it sends, reads and returns.   *)

Call(s, r, l, o, v) ==
    [sent |-> s, replies |-> r, logged |-> l, outcome |-> o, result |-> v]

\* parameter p of sub-supply uid is read, the instrument answering resp
param_get(uid, p, resp) ==
    LET cmd == dress_read(uid, get_cmd(p))
        a == ask(cmd, resp)
        v == _signal_parser(get_den(p), a.val)
    IN  IF a.raised # "none"
        THEN Call(<<cmd>>, <<resp>>, a.logged, a.raised, NoValue)
        ELSE Call(<<cmd>>, <<resp>>, a.logged,
                  IF v.raised = "none" THEN "ok" ELSE v.raised, v.value)

\* ramp_status is read: get_parser=_response_preparser, then val_mapping
ramp_status_get(uid, resp) ==
    LET cmd == dress_read(uid, sACTN)
        a == ask(cmd, resp)
        m == inverse_val_mapping(_response_preparser(a.val))
    IN  IF a.raised # "none"
        THEN Call(<<cmd>>, <<resp>>, a.logged, a.raised, NoValue)
        ELSE IF m.raised # "none"
        THEN Call(<<cmd>>, <<resp>>, a.logged, m.raised, NoValue)
        ELSE Call(<<cmd>>, <<resp>>, a.logged, "ok", StatusValue(m.val))

\* ramp_refused with the status compared to the instrument's token, not to
\* the name val_mapping gives it
ramp_refused_by_token(status_now, cmd) == status_now = "CLMP" /\ cmd = sRTOS

\* the guard of _ramp_status_setter: status_now is what ramp_status()
\* returned, cmd the token the new status maps to
ramp_refused(status_now, cmd) == status_now = "CLAMP" /\ cmd = sRTOS

\* _ramp_status_setter without the read of the current status
_ramp_status_setter_blind(uid, cmd, read, accepts) ==
    LET dressed == dress_set(uid, sACTN, cmd)
        ack == IF accepts THEN set_reply(dressed) ELSE invalid_reply(dressed)
        a == ask(dressed, ack)
    IN  IF read.outcome # "ok"
        THEN [read EXCEPT !.result = NoValue]
        ELSE Call(<<dressed>>, <<ack>>, a.logged,
             IF a.raised = "none" THEN "ok" ELSE a.raised, NoValue)

\* _ramp_status_setter(cmd) from the return of self.ramp_status() on: read is
\* that call of ramp_status, whose result is status_now; accepts tells
\* whether the instrument acknowledges the SET or rejects it.  The call as a
\* whole: what it has sent and read, and how it ends.  When the read raised,
\* the call ends there with what the read raised.
_ramp_status_setter(uid, cmd, read, accepts) ==
    LET status_now == read.result.status
        dressed == dress_set(uid, sACTN, cmd)
        ack == IF accepts THEN set_reply(dressed) ELSE invalid_reply(dressed)
        a == ask(dressed, ack)
    IN  IF read.outcome # "ok"
        THEN [read EXCEPT !.result = NoValue]
        ELSE IF ramp_refused(status_now, cmd)
        THEN Call(read.sent, read.replies, read.logged, "ValueError: clamped",
                  NoValue)
        ELSE Call(read.sent \o <<dressed>>, read.replies \o <<ack>>,
                  read.logged + a.logged,
                  IF a.raised = "none" THEN "ok" ELSE a.raised, NoValue)

\* parameter p of SettableParams is set to the int x: the set_parser, then
\* _param_setter
param_set(uid, p, x, accepts) ==
    LET value == int_format(set_parser(p, x))
        dressed == dress_set(uid, set_cmd(p), value)
        ack == IF accepts THEN set_reply(dressed) ELSE invalid_reply(dressed)
        a == ask(dressed, ack)
    IN  Call(<<dressed>>, <<ack>>, a.logged,
             IF a.raised = "none" THEN "ok" ELSE a.raised, NoValue)

-----------------------------------------------------------------------------
(* FieldVector: the target vector is its Cartesian components; r, theta,   *)
(* phi and rho are views of them (angles in degrees).  A component is an   *)
(* exact rational.  The Cartesian components are read and set as they are, *)
(* and r and rho are set to zero from every vector; otherwise a spherical  *)
(* or cylindrical view is read, and is set, where the components are whole *)
(* numbers and the result is determined by them and made of whole numbers  *)
(* again.  set_defined tells which sets these are; the calls of the model  *)
(* are made with these.                                                    *)

Coordinates == {"x", "y", "z", "r", "theta", "phi", "rho"}

RECURSIVE GCD(_, _)
GCD(a, b) == IF b = 0 THEN a ELSE GCD(b, a % b)

LCM(a, b) == (a \div GCD(a, b)) * b

\* the rational n/d, d > 0, in lowest terms
Rat(n, d) ==
    LET g == GCD(IF n < 0 THEN 0 - n ELSE n, d)
    IN  [num |-> n \div g, den |-> d \div g]

\* the whole number t
Whole(t) == [num |-> t, den |-> 1]

Vector(x, y, z) == [x |-> x, y |-> y, z |-> z]

Origin == Vector(Whole(0), Whole(0), Whole(0))

\* the components of v are whole numbers; v as a triple of integers, and back
Integral(v) == v.x.den = 1 /\ v.y.den = 1 /\ v.z.den = 1
Ints(v) == [x |-> v.x.num, y |-> v.y.num, z |-> v.z.num]
Rats(w) == Vector(Whole(w.x), Whole(w.y), Whole(w.z))

Norm2(w) == w.x * w.x + w.y * w.y + w.z * w.z
Rho2(w) == w.x * w.x + w.y * w.y

IsSquare(n) == \E m \in 0..n : m * m = n
ISqrt(n) == CHOOSE m \in 0..n : m * m = n

\* a * t / m is an integer
Exact(a, t, m) == m # 0 /\ (a * t) % m = 0
Scaled(a, t, m) == (a * t) \div m

ThetaValues == {0, 90, 180}
PhiValues == {-90, 0, 90, 180}

\* the direction of angle phi in the plane
CosDeg(a) == CASE a = 0 -> 1 [] a = 180 -> -1 [] OTHER -> 0
SinDeg(a) == CASE a = 90 -> 1 [] a = -90 -> -1 [] OTHER -> 0

\* FieldVector.get_components(coordinate)[0] is in the model
get_defined(v, c) ==
    CASE c \in {"x", "y", "z"} -> TRUE
      [] c = "r" -> Integral(v) /\ IsSquare(Norm2(Ints(v)))
      [] c = "rho" -> Integral(v) /\ IsSquare(Rho2(Ints(v)))
      [] c = "theta" ->
            /\ Integral(v) /\ Norm2(Ints(v)) # 0
            /\ (Rho2(Ints(v)) = 0 \/ v.z.num = 0)
      [] c = "phi" ->
            /\ Integral(v) /\ Rho2(Ints(v)) # 0
            /\ (v.x.num = 0 \/ v.y.num = 0)

\* FieldVector.get_components(coordinate)[0]
get_components(v, c) ==
    LET w == Ints(v)
    IN  CASE c = "x" -> v.x
          [] c = "y" -> v.y
          [] c = "z" -> v.z
          [] c = "r" -> Whole(ISqrt(Norm2(w)))
          [] c = "rho" -> Whole(ISqrt(Rho2(w)))
          [] c = "theta" ->
                Whole(IF w.z = 0 THEN 90 ELSE IF w.z > 0 THEN 0 ELSE 180)
          [] c = "phi" ->
                Whole(IF w.y = 0 THEN (IF w.x > 0 THEN 0 ELSE 180)
                      ELSE (IF w.y > 0 THEN 90 ELSE -90))

\* FieldVector.set_component(coordinate=t), t a whole number, is in the
\* model
set_defined(v, c, t) ==
    LET w == Ints(v)
    IN  CASE c \in {"x", "y", "z"} -> TRUE
          [] c = "r" ->
                \/ t = 0
                \/ /\ Integral(v) /\ t > 0 /\ IsSquare(Norm2(w))
                   /\ LET m == ISqrt(Norm2(w))
                      IN  /\ Exact(w.x, t, m) /\ Exact(w.y, t, m)
                          /\ Exact(w.z, t, m)
          [] c = "rho" ->
                \/ t = 0
                \/ /\ Integral(v) /\ t > 0 /\ IsSquare(Rho2(w))
                   /\ LET k == ISqrt(Rho2(w))
                      IN  Exact(w.x, t, k) /\ Exact(w.y, t, k)
          [] c = "theta" ->
                /\ Integral(v)
                /\ t \in ThetaValues /\ IsSquare(Norm2(w)) /\ Norm2(w) # 0
                /\ t = 90 =>
                      /\ IsSquare(Rho2(w))
                      /\ LET m == ISqrt(Norm2(w))
                             k == ISqrt(Rho2(w))
                         IN  Exact(w.x, m, k) /\ Exact(w.y, m, k)
          [] c = "phi" -> Integral(v) /\ t \in PhiValues /\ IsSquare(Rho2(w))

\* FieldVector.set_component(coordinate=t): x, y, z replace a component; r
\* keeps theta and phi; theta keeps r and phi; phi keeps r and theta; rho
\* keeps phi and z
set_component(v, c, t) ==
    LET w == Ints(v)
    IN  CASE c = "x" -> Vector(Whole(t), v.y, v.z)
          [] c = "y" -> Vector(v.x, Whole(t), v.z)
          [] c = "z" -> Vector(v.x, v.y, Whole(t))
          [] c = "r" ->
                LET m == ISqrt(Norm2(w))
                IN  IF t = 0 THEN Origin
                    ELSE Rats([x |-> Scaled(w.x, t, m),
                               y |-> Scaled(w.y, t, m),
                               z |-> Scaled(w.z, t, m)])
          [] c = "rho" ->
                LET k == ISqrt(Rho2(w))
                IN  IF t = 0 THEN Vector(Whole(0), Whole(0), v.z)
                    ELSE Rats([x |-> Scaled(w.x, t, k),
                               y |-> Scaled(w.y, t, k), z |-> w.z])
          [] c = "theta" ->
                LET m == ISqrt(Norm2(w))
                    k == ISqrt(Rho2(w))
                IN  IF t = 90
                    THEN Rats([x |-> Scaled(w.x, m, k),
                               y |-> Scaled(w.y, m, k), z |-> 0])
                    ELSE Rats([x |-> 0, y |-> 0, z |-> m * CosDeg(t)])
          [] c = "phi" ->
                LET k == ISqrt(Rho2(w))
                IN  Rats([x |-> k * CosDeg(t), y |-> k * SinDeg(t),
                          z |-> w.z])

\* FieldVector.copy
copy(v) == Vector(v.x, v.y, v.z)

-----------------------------------------------------------------------------
(* MercuryiPS: the field limits and the target vector.                     *)

\* the field_limits functions the driver is constructed with in this model:
\* none given (lambda x, y, z: True), the unit ball x*x + y*y + z*z <= 1,
\* and the slab -1.5 <= z <= 1.5; they are evaluated in exact arithmetic.
\* FieldVector recomputes x, y and z in floats (z = r * cos(theta) after a
\* set of phi, say), a rounding error away from the exact value.  The limits
\* are chosen so that for every vector of this model the two fall on the
\* same side: no vector has z on the boundary of the slab, and for those on
\* the boundary of the ball the float sum of squares is at most 1.0
LimitNames == {"none", "ball", "slab"}

field_limits(lim, x, y, z) ==
    LET d == LCM(x.den, LCM(y.den, z.den))
        xs == x.num * (d \div x.den)
        ys == y.num * (d \div y.den)
        zs == z.num * (d \div z.den)
    IN  CASE lim = "none" -> TRUE
          [] lim = "ball" -> xs * xs + ys * ys + zs * zs <= d * d
          [] lim = "slab" -> 2 * zs >= 0 - 3 * d /\ 2 * zs <= 3 * d

\* _get_component
_get_component(tv, coordinate) == get_components(tv, coordinate)

\* the validation of _set_target left out
_set_target_unchecked(tv, lim, coordinate, t) ==
    [raised |-> "none",
     valid_vec |-> set_component(copy(tv), coordinate, t)]

\* _set_target(coordinate, target) up to the commit: the copy of the live
\* vector tv, the coordinate set on the copy, and the limits evaluated on
\* it: [raised, valid_vec]
_set_target_validate(tv, lim, coordinate, t) ==
    LET valid_vec == set_component(copy(tv), coordinate, t)
    IN  IF ~field_limits(lim, valid_vec.x, valid_vec.y, valid_vec.z)
        THEN [raised |-> "ValueError: field_limits", valid_vec |-> valid_vec]
        ELSE [raised |-> "none", valid_vec |-> valid_vec]

\* the commit of _set_target left out
_set_target_commit_nothing(tv, coordinate, t) == tv

\* the commit of _set_target: the coordinate is set on the live vector, tv
\* being what self._target_vector is then
_set_target_commit(tv, coordinate, t) == set_component(tv, coordinate, t)

-----------------------------------------------------------------------------
(* The state after construction.                                           *)

\* the sub-supplies MercuryiPS.__init__ registers
BaseUIDs == {sGRPX, sGRPY, sGRPZ}

\* the UIDs sub-supplies are constructed with: those of the driver and two
\* further ones
UIDs ==
    BaseUIDs \cup {<<"P", "S", "U", ".", "M", "1">>,
                    <<"P", "S", "U", ":", "M", "1">>}

\* the axis whose sub-supply the two callers share
SpecAxes == {sGRPX}

\* the UIDs the instrument can be addressed with
DevUIDs == {u \in UIDs : ~str_contains(u, sColon)}

\* the threads that call the driver; the driver holds no lock
Callers == {"A", "B"}

OpRec(name, caller, uid, param, num, status) ==
    [name |-> name, caller |-> caller, uid |-> uid, param |-> param,
     num |-> num, status |-> status]

\* a caller that is not inside a call
Idle ==
    [busy |-> FALSE, call |-> "", uid |-> <<>>, status |-> "",
     read |-> Call(<<>>, <<>>, 0, "ok", NoValue),
     coordinate |-> "", num |-> 0, valid_vec |-> Origin]

\* a caller inside _ramp_status_setter of sub-supply uid, between the return
\* of self.ramp_status() (the call read) and the guard
Inside(uid, status, read) ==
    [Idle EXCEPT !.busy = TRUE, !.call = "ramp_status", !.uid = uid,
                 !.status = status, !.read = read]

\* a caller inside _set_target(coordinate, t), between the validation of
\* the copy valid_vec and the commit to the live vector
InsideTarget(coordinate, t, valid_vec) ==
    [Idle EXCEPT !.busy = TRUE, !.call = "target", !.coordinate = coordinate,
                 !.num = t, !.valid_vec = valid_vec]

RECURSIVE Pow10(_)
Pow10(n) == IF n = 0 THEN 1 ELSE 10 * Pow10(n - 1)

\* the field_limits arguments: "none" stands for None, "number" for a value
\* that is not callable
LimitArguments == LimitNames \cup {"number"}

\* the checks MercuryiPS.__init__ makes on its arguments before the
\* connection is opened: what they raise (the empty visalib stands for None)
check_arguments(lim, address, visalib) ==
    LET parts == str_split(visalib, "@")
        visabackend == IF visalib # sEmpty THEN parts[2] ELSE <<"N", "I">>
    IN  IF lim # "none" /\ lim \notin {"ball", "slab"}
        THEN "ValueError: field_limits type"
        ELSE IF visalib # sEmpty /\ Len(parts) < 2
        THEN "IndexError"
        ELSE IF /\ ~str_endswith(address, <<"S", "O", "C", "K", "E", "T">>)
                /\ visabackend # <<"s", "i", "m">>
        THEN "ValueError: address"
        ELSE "none"

\* the address and visalib arguments of this model: a socket and another
\* resource; no visalib, the simulation backend, another backend, and a
\* visalib that names no backend
Arguments ==
    [address : {<<":", ":", "S", "O", "C", "K", "E", "T">>,
                <<":", ":", "I", "N", "S", "T", "R">>},
     visalib : {sEmpty, <<"f", "@", "s", "i", "m">>, <<"@", "p", "y">>,
                <<"f">>}]

SocketArguments ==
    [address : {<<":", ":", "S", "O", "C", "K", "E", "T">>}, visalib : {sEmpty}]

check_arguments_of ==
    [lim \in LimitArguments |-> [a \in Arguments |->
        check_arguments(lim, a.address, a.visalib)]]

\* the reply of an axis that reports the field reading
field_reply(uid, reading) == read_reply(dress_read(uid, sFLD), reading)

\* what an axis answers at construction: a reading of Fields or, when
\* faulty, a rejection
FieldReplies(uid, Fields, faulty) ==
    {field_reply(uid, r) : r \in Fields}
        \cup (IF faulty
              THEN {invalid_reply(str_from(dress_read(uid, sFLD), Len(sREADc)))}
              ELSE {})

\* _idn_getter, the instrument answering resp: the call, and the IDN dict
_idn_getter(resp) ==
    LET a == ask(sIDN, resp)
        resps == str_split(a.val, ":")
    IN  IF a.raised # "none"
        THEN [call |-> Call(<<sIDN>>, <<resp>>, a.logged, a.raised, NoValue),
              idn |-> <<>>]
        ELSE IF Len(resps) < 5
        THEN [call |-> Call(<<sIDN>>, <<resp>>, a.logged, "IndexError",
                            NoValue),
              idn |-> <<>>]
        ELSE [call |-> Call(<<sIDN>>, <<resp>>, a.logged, "ok", NoValue),
              idn |-> [model |-> resps[3], vendor |-> resps[2],
                       serial |-> resps[4], firmware |-> resps[5]]]

\* the call c followed by the call d
Then(c, d) ==
    Call(c.sent \o d.sent, c.replies \o d.replies, c.logged + d.logged,
         d.outcome, d.result)

\* the number a parsed field reading is, mant * 10^exp / den, as the
\* component of the target vector it becomes
initial_field(v) ==
    IF v.exp >= 0
    THEN Rat(v.mant * Pow10(v.exp), v.den)
    ELSE Rat(v.mant, v.den * Pow10(0 - v.exp))

\* MercuryiPS.__init__ from the target vector on: the three axes are asked
\* for their field, then connect_message asks for the identity.  The call,
\* and the target vector (the origin stands for a vector never made).
construct(rx, ry, rz, ridn) ==
    LET gx == param_get(sGRPX, "field", rx)
        gy == Then(gx, param_get(sGRPY, "field", ry))
        gz == Then(gy, param_get(sGRPZ, "field", rz))
        idn == Then(gz, _idn_getter(ridn).call)
        x == param_get(sGRPX, "field", rx).result
        y == param_get(sGRPY, "field", ry).result
        z == param_get(sGRPZ, "field", rz).result
    IN  IF gx.outcome # "ok"
        THEN [call |-> [gx EXCEPT !.result = NoValue], vec |-> Origin]
        ELSE IF gy.outcome # "ok"
        THEN [call |-> [gy EXCEPT !.result = NoValue], vec |-> Origin]
        ELSE IF gz.outcome # "ok"
        THEN [call |-> [gz EXCEPT !.result = NoValue], vec |-> Origin]
        ELSE [call |-> [idn EXCEPT !.result = NoValue],
              vec |-> Vector(initial_field(x), initial_field(y),
                             initial_field(z))]

\* the constructions of this model: each axis reports a reading of Fields,
\* and *IDN? is answered <preamble>:<vendor>:<model>:<serial>:<firmware>;
\* when faulty, the instrument may also reject a reading or give an identity
\* that is too short, and the constructor raises
Constructions(Fields, faulty) ==
    {construct(rx, ry, rz, ridn) :
        rx \in FieldReplies(sGRPX, Fields, faulty),
        ry \in FieldReplies(sGRPY, Fields, faulty),
        rz \in FieldReplies(sGRPZ, Fields, faulty),
        ridn \in {<<"I", "D", "N", ":", "O", "X", ":", "I", "P", "S", ":",
                    "7", ":", "2">>}
                    \cup (IF faulty THEN {<<"I", "D", "N", ":", "O", "X">>}
                          ELSE {})}

\* the instrument at zero field, answering well
AtZero == Constructions({<<"0", "T">>}, FALSE)

\* the instrument at zero field, or failing to answer
AtZeroOrFailing == Constructions({<<"0", "T">>}, TRUE)

\* the instrument at any field of the model, a whole number of tesla or
\* 500mT, or failing to answer
AtAnyFieldOrFailing ==
    Constructions({int_format(n) \o <<"T">> : n \in -MaxField..MaxField}
                      \cup {<<"5", "0", "0", "m", "T">>}, TRUE)

\* MercuryiPS.__init__(name, address, visalib, field_limits) for a
\* field_limits of Lims, an address and a visalib of Args and a construction
\* of Made.  When the arguments are refused nothing is sent and no driver is
\* made.
InitDriver(Lims, Args, Made) ==
    /\ slaves = BaseUIDs
    /\ unsafe = FALSE
    /\ writers = {}
    /\ pending = [c \in Callers |-> Idle]
    /\ op = OpRec("init", "", <<>>, "", 0, "")
    /\ \E lim \in Lims, a \in Args :
          IF check_arguments_of[lim][a] # "none"
          THEN /\ limits = "none"
               /\ target = Origin
               /\ sent = <<>>
               /\ replies = <<>>
               /\ logged = 0
               /\ outcome = check_arguments_of[lim][a]
               /\ result = NoValue
          ELSE /\ limits = lim
               /\ \E c \in Made :
                     /\ target = c.vec
                     /\ sent = c.call.sent
                     /\ replies = c.call.replies
                     /\ logged = c.call.logged
                     /\ outcome = c.call.outcome
                     /\ result = c.call.result

\* the constructor has returned a driver
Constructed == ~(op.name = "init" /\ outcome # "ok")

\* caller can make a call on the driver
CanCall(caller) == Constructed /\ ~pending[caller].busy

NoInput == [cmd |-> <<>>, resp |-> <<>>, den |-> 1]

\* the call c has made a step
Returns(c) ==
    /\ sent' = c.sent
    /\ replies' = c.replies
    /\ logged' = c.logged
    /\ outcome' = c.outcome
    /\ result' = c.result

-----------------------------------------------------------------------------
(* The calls on the driver.                                                *)

\* MercurySlavePS(parent, name, UID) followed by add_submodule
AddSlave(caller, uid) ==
    /\ CanCall(caller)
    /\ uid \notin slaves
    /\ op' = OpRec("add_slave", caller, uid, "", 0, "")
    /\ IF uid_refused(uid)
       THEN /\ slaves' = slaves
            /\ Returns(Call(<<>>, <<>>, 0, "ValueError: UID", NoValue))
       ELSE /\ slaves' = slaves \cup {uid}
            /\ Returns(Call(<<>>, <<>>, 0, "ok", NoValue))
    /\ UNCHANGED <<dev, unsafe, writers, target, limits, pending, input>>

\* what the instrument may answer to the READ of parameter p
ReadReplies(uid, p) ==
    LET cmd == dress_read(uid, get_cmd(p))
    IN  {read_reply(cmd, r) : r \in Readings}
            \cup {invalid_reply(str_from(cmd, Len(sREADc)))}

\* what the instrument may answer to the READ of the ramp status
RampReplies(uid) ==
    LET cmd == dress_read(uid, sACTN)
    IN  {read_reply(cmd, tok) : tok \in Tokens}
            \cup {invalid_reply(str_from(cmd, Len(sREADc)))}

\* The calls of the sub-supplies over the replies of this model, computed
\* once: the replies to a READ, and what _param_getter, _param_setter,
\* ramp_status and _ramp_status_setter do with them.
NumericParams == ParamNames \ {"ramp_status"}

ReadRepliesOf ==
    [uid \in DevUIDs |-> [p \in NumericParams |-> ReadReplies(uid, p)]]

RampRepliesOf == [uid \in DevUIDs |-> RampReplies(uid)]

param_get_of ==
    [uid \in DevUIDs |-> [p \in NumericParams |->
        [resp \in ReadReplies(uid, p) |-> param_get(uid, p, resp)]]]

param_set_of ==
    [uid \in DevUIDs |-> [p \in SettableParams |->
        [x \in 0..MaxValue |-> [accepts \in BOOLEAN |->
            param_set(uid, p, x, accepts)]]]]

ramp_status_get_of ==
    [uid \in DevUIDs |->
        [resp \in RampReplies(uid) |-> ramp_status_get(uid, resp)]]

\* _ramp_status_setter of sub-supply uid for the new status, after the
\* READ that was answered resp
_ramp_status_setter_of ==
    [uid \in DevUIDs |-> [status \in StatusNames |->
        [resp \in RampReplies(uid) |-> [accepts \in BOOLEAN |->
            _ramp_status_setter(uid, val_mapping(status),
                                ramp_status_get(uid, resp), accepts)]]]]

\* a numeric parameter is read
GetParam(caller, uid, p, resp) ==
    /\ CanCall(caller)
    /\ uid \in slaves
    /\ p \in NumericParams
    /\ op' = OpRec("get", caller, uid, p, 0, "")
    /\ Returns(param_get_of[uid][p][resp])
    /\ UNCHANGED <<slaves, dev, unsafe, writers, target, limits, pending,
                   input>>

\* a numeric parameter is set to x; one registered without a set_cmd has no
\* setter, and nothing is sent
SetParam(caller, uid, p, x, accepts) ==
    /\ CanCall(caller)
    /\ uid \in slaves
    /\ p \in NumericParams
    /\ op' = OpRec("set", caller, uid, p, x, "")
    /\ IF p \in SettableParams
       THEN Returns(param_set_of[uid][p][x][accepts])
       ELSE Returns(Call(<<>>, <<>>, 0, "NotSettable", NoValue))
    /\ UNCHANGED <<slaves, dev, unsafe, writers, target, limits, pending,
                   input>>

\* ramp_status is read, the instrument answering resp
GetRampStatus(caller, uid, resp) ==
    /\ CanCall(caller)
    /\ uid \in slaves
    /\ op' = OpRec("get_ramp_status", caller, uid, "ramp_status", 0, "")
    /\ Returns(ramp_status_get_of[uid][resp])
    /\ UNCHANGED <<slaves, dev, unsafe, writers, target, limits, pending,
                   input>>

\* ramp_status is set to status, first round trip: _ramp_status_setter calls
\* self.ramp_status(), the instrument answering resp.  When the read raises,
\* the call ends; otherwise the caller holds status_now and has yet to
\* evaluate the guard.
SetRampStatusRead(caller, uid, status, resp) ==
    /\ CanCall(caller)
    /\ uid \in slaves
    /\ op' = OpRec("set_ramp_status", caller, uid, "ramp_status", 0, status)
    /\ LET read == ramp_status_get_of[uid][resp]
       IN  IF read.outcome # "ok"
           THEN /\ Returns([read EXCEPT !.result = NoValue])
                /\ pending' = pending
           ELSE /\ Returns(Call(read.sent, read.replies, read.logged,
                                "pending", NoValue))
                /\ pending' = [pending EXCEPT
                                  ![caller] = Inside(uid, status, read)]
    /\ UNCHANGED <<slaves, dev, unsafe, writers, target, limits, input>>

\* ramp_status is set, the rest of the call: the guard and, unless it
\* refuses, the second round trip, the SET
SetRampStatusWrite(caller, accepts) ==
    /\ pending[caller].call = "ramp_status"
    /\ LET p == pending[caller]
       IN  /\ op' = OpRec("set_ramp_status", caller, p.uid, "ramp_status", 0,
                          p.status)
           /\ Returns(_ramp_status_setter_of[p.uid][p.status]
                                             [p.read.replies[1]][accepts])
    /\ pending' = [pending EXCEPT ![caller] = Idle]
    /\ UNCHANGED <<slaves, dev, unsafe, writers, target, limits, input>>

\* <coordinate>_target is read
GetTarget(caller, c) ==
    /\ CanCall(caller)
    /\ get_defined(target, c)
    /\ op' = OpRec("get_target", caller, <<>>, c, 0, "")
    /\ LET q == _get_component(target, c)
           n == NormMant(q.num, 0)
       IN  Returns(Call(<<>>, <<>>, 0, "ok", NumValue(n.mant, n.exp, q.den)))
    /\ UNCHANGED <<slaves, dev, unsafe, writers, target, limits, pending,
                   input>>

TargetValues(c) ==
    CASE c = "theta" -> ThetaValues
      [] c = "phi" -> PhiValues
      [] OTHER -> -MaxField..MaxField

\* <coordinate>_target is set to t, a set of set_defined, up to the commit:
\* the live vector is copied, the coordinate set on the copy and the limits
\* evaluated on it.  Refused, the call ends; otherwise the caller has yet to
\* set the coordinate on the live vector.
SetTargetCheck(caller, c, t) ==
    /\ CanCall(caller)
    /\ set_defined(target, c, t)
    /\ op' = OpRec("set_target", caller, <<>>, c, t, "")
    /\ LET s == _set_target_validate(target, limits, c, t)
       IN  IF s.raised # "none"
           THEN /\ Returns(Call(<<>>, <<>>, 0, s.raised, NoValue))
                /\ pending' = pending
           ELSE /\ Returns(Call(<<>>, <<>>, 0, "pending", NoValue))
                /\ pending' = [pending EXCEPT
                                  ![caller] = InsideTarget(c, t, s.valid_vec)]
    /\ UNCHANGED <<slaves, dev, unsafe, writers, target, limits, input>>

\* <coordinate>_target is set, the commit: the coordinate is set on the
\* live vector as it is now
SetTargetCommit(caller) ==
    /\ pending[caller].call = "target"
    /\ LET p == pending[caller]
       IN  /\ op' = OpRec("set_target", caller, <<>>, p.coordinate, p.num, "")
           /\ target' = _set_target_commit(target, p.coordinate, p.num)
    /\ Returns(Call(<<>>, <<>>, 0, "ok", NoValue))
    /\ pending' = [pending EXCEPT ![caller] = Idle]
    /\ UNCHANGED <<slaves, dev, unsafe, writers, limits, input>>

\* The driver as constructed and used by two callers, the instrument
\* answering as it likes.  The instrument is at zero field and the limit is
\* the unit ball; the sub-supply calls are those of the first axis; the
\* target sets are those defined from every vector, whatever the other
\* caller has made of the live vector: x, y and z to 0..MaxValue, r and rho
\* to zero.
Init ==
    /\ InitDriver({"ball", "number"}, Arguments, AtZeroOrFailing)
    /\ dev = [u \in DevUIDs |-> sHOLD]
    /\ input = NoInput

Next ==
    \/ \E caller \in Callers, uid \in SpecAxes,
          p \in NumericParams :
          \E resp \in ReadRepliesOf[uid][p] : GetParam(caller, uid, p, resp)
    \/ \E caller \in Callers, uid \in SpecAxes,
          p \in NumericParams,
          x \in 0..MaxValue, accepts \in BOOLEAN :
          SetParam(caller, uid, p, x, accepts)
    \/ \E caller \in Callers, uid \in SpecAxes :
          \E resp \in RampRepliesOf[uid] : GetRampStatus(caller, uid, resp)
    \/ \E caller \in Callers, uid \in SpecAxes, status \in StatusNames :
          \E resp \in RampRepliesOf[uid] :
              SetRampStatusRead(caller, uid, status, resp)
    \/ \E caller \in Callers, accepts \in BOOLEAN :
          SetRampStatusWrite(caller, accepts)
    \/ \E caller \in Callers, c \in Coordinates : GetTarget(caller, c)
    \/ \E caller \in Callers, c \in {"x", "y", "z", "r", "rho"} :
          \E t \in IF c \in {"r", "rho"} THEN {0} ELSE 0..MaxValue :
              SetTargetCheck(caller, c, t)
    \/ \E caller \in Callers : SetTargetCommit(caller)

Spec == Init /\ [][Next]_vars

\* The sub-supplies, used by a single caller: the three of the driver and
\* those constructed later.
InitAxis ==
    /\ InitDriver({"none", "number"}, Arguments, AtZeroOrFailing)
    /\ dev = [u \in DevUIDs |-> sHOLD]
    /\ input = NoInput

NextAxis ==
    \/ \E uid \in UIDs : AddSlave("A", uid)
    \/ \E uid \in DevUIDs, p \in NumericParams :
          \E resp \in ReadRepliesOf[uid][p] : GetParam("A", uid, p, resp)
    \/ \E uid \in DevUIDs, p \in NumericParams,
          x \in 0..MaxValue, accepts \in BOOLEAN :
          SetParam("A", uid, p, x, accepts)
    \/ \E uid \in DevUIDs : \E resp \in RampRepliesOf[uid] :
          GetRampStatus("A", uid, resp)
    \/ \E uid \in DevUIDs, status \in StatusNames :
          \E resp \in RampRepliesOf[uid] :
              SetRampStatusRead("A", uid, status, resp)
    \/ \E accepts \in BOOLEAN : SetRampStatusWrite("A", accepts)

SpecAxis == InitAxis /\ [][NextAxis]_vars

\* The target parameters alone, used by a single caller, for every limit and
\* every initial field.
InitTarget ==
    /\ InitDriver(LimitArguments, Arguments, AtAnyFieldOrFailing)
    /\ dev = [u \in DevUIDs |-> sHOLD]
    /\ input = NoInput

NextTarget ==
    \/ \E c \in Coordinates : GetTarget("A", c)
    \/ \E c \in Coordinates :
          \E t \in TargetValues(c) : SetTargetCheck("A", c, t)
    \/ SetTargetCommit("A")

SpecTarget == InitTarget /\ [][NextTarget]_vars

-----------------------------------------------------------------------------
(* The driver's ramp status against an instrument that keeps its status:   *)
(* the status of an axis changes only when the instrument accepts a        *)
(* SET ... ACTN command.  Two callers share the driver.                     *)

\* the instrument holding the statuses d receives cmd
instrument_receive(d, cmd, accepts) ==
    LET f == str_split(cmd, ":")
    IN  IF /\ accepts /\ Len(f) = 6
           /\ f[1] = sSET /\ f[2] = sDEV /\ f[3] \in DOMAIN d
           /\ f[4] = sPSU /\ f[5] = sACTN /\ f[6] \in Tokens
        THEN [d EXCEPT ![f[3]] = f[6]]
        ELSE d

\* cmd tells a clamped axis of the instrument to ramp to its set point
instrument_unsafe(d, cmd) ==
    \E u \in DevUIDs : cmd = dress_set(u, sACTN, sRTOS) /\ d[u] = sCLMP

RECURSIVE instrument_after(_, _, _)
instrument_after(d, cmds, accepts) ==
    IF cmds = <<>> THEN d
    ELSE instrument_after(instrument_receive(d, Head(cmds), accepts),
                          Tail(cmds), accepts)

RECURSIVE instrument_harmed(_, _, _)
instrument_harmed(d, cmds, accepts) ==
    IF cmds = <<>> THEN FALSE
    ELSE \/ instrument_unsafe(d, Head(cmds))
         \/ instrument_harmed(instrument_receive(d, Head(cmds), accepts),
                              Tail(cmds), accepts)

\* what the instrument holding the statuses d answers to cmd
instrument_reply(d, cmd, accepts) ==
    LET f == str_split(cmd, ":")
    IN  IF Len(f) = 5 /\ f[1] = sREAD /\ f[3] \in DOMAIN d /\ f[5] = sACTN
        THEN read_reply(cmd, d[f[3]])
        ELSE IF accepts THEN set_reply(cmd) ELSE invalid_reply(cmd)

\* what the instrument answers to the READ of the ramp status of an axis
\* that holds the token tok
instrument_reads ==
    [uid \in DevUIDs |-> [tok \in Tokens |->
        instrument_reply([u \in DevUIDs |-> tok], dress_read(uid, sACTN),
                         TRUE)]]

\* ramp_status is read from the instrument
DevGetRampStatus(caller, uid) ==
    /\ CanCall(caller)
    /\ uid \in slaves
    /\ op' = OpRec("get_ramp_status", caller, uid, "ramp_status", 0, "")
    /\ Returns(ramp_status_get_of[uid][instrument_reads[uid][dev[uid]]])
    /\ UNCHANGED <<slaves, dev, unsafe, writers, target, limits, pending,
                   input>>

\* ramp_status is set on the instrument, first round trip: the instrument
\* reports the status it holds now
DevSetRampStatusRead(caller, uid, status) ==
    /\ CanCall(caller)
    /\ uid \in slaves
    /\ op' = OpRec("set_ramp_status", caller, uid, "ramp_status", 0, status)
    /\ LET read == ramp_status_get_of[uid][instrument_reads[uid][dev[uid]]]
       IN  IF read.outcome # "ok"
           THEN /\ Returns([read EXCEPT !.result = NoValue])
                /\ pending' = pending
           ELSE /\ Returns(Call(read.sent, read.replies, read.logged,
                                "pending", NoValue))
                /\ pending' = [pending EXCEPT
                                  ![caller] = Inside(uid, status, read)]
    /\ UNCHANGED <<slaves, dev, unsafe, writers, target, limits, input>>

\* ramp_status is set on the instrument, the rest of the call: the guard
\* on the status read before and, unless it refuses, the SET, which the
\* instrument receives in the status it holds now
DevSetRampStatusWrite(caller, accepts) ==
    /\ pending[caller].call = "ramp_status"
    /\ LET p == pending[caller]
           c == _ramp_status_setter_of[p.uid][p.status][p.read.replies[1]]
                                      [accepts]
           cmds == SubSeq(c.sent, Len(p.read.sent) + 1, Len(c.sent))
       IN  /\ op' = OpRec("set_ramp_status", caller, p.uid, "ramp_status", 0,
                          p.status)
           /\ Returns(c)
           /\ dev' = instrument_after(dev, cmds, accepts)
           /\ unsafe' = (unsafe \/ instrument_harmed(dev, cmds, accepts))
           /\ writers' = IF cmds = <<>> THEN writers
                         ELSE writers \cup {caller}
    /\ pending' = [pending EXCEPT ![caller] = Idle]
    /\ UNCHANGED <<slaves, target, limits, input>>

\* ask(cmd) called on the driver directly: the command goes to the
\* instrument as it is, no guard in between
DevAsk(caller, cmd) ==
    /\ CanCall(caller)
    /\ op' = OpRec("ask", caller, <<>>, "", 0, "")
    /\ LET resp == instrument_reply(dev, cmd, TRUE)
           a == ask(cmd, resp)
       IN  Returns(Call(<<cmd>>, <<resp>>, a.logged,
                        IF a.raised = "none" THEN "ok" ELSE a.raised,
                        IF a.raised = "none" THEN StrValue(a.val) ELSE NoValue))
    /\ dev' = instrument_receive(dev, cmd, TRUE)
    /\ unsafe' = (unsafe \/ instrument_unsafe(dev, cmd))
    /\ writers' = IF MatchAt(cmd, sSET, 1) THEN writers \cup {"ask"}
                  ELSE writers
    /\ UNCHANGED <<slaves, target, limits, pending, input>>

InitDevice ==
    /\ InitDriver({"none"}, Arguments, AtZeroOrFailing)
    /\ dev \in {d \in [DevUIDs -> Tokens] :
                    \A u \in DevUIDs \ SpecAxes : d[u] = sHOLD}
    /\ input = NoInput

NextDevice ==
    \/ \E caller \in Callers, uid \in SpecAxes : DevGetRampStatus(caller, uid)
    \/ \E caller \in Callers, uid \in SpecAxes, status \in StatusNames :
          DevSetRampStatusRead(caller, uid, status)
    \/ \E caller \in Callers, accepts \in BOOLEAN :
          DevSetRampStatusWrite(caller, accepts)
    \/ \E caller \in Callers, uid \in SpecAxes, tok \in {sRTOS, sCLMP} :
          DevAsk(caller, dress_set(uid, sACTN, tok))

SpecDevice == InitDevice /\ [][NextDevice]_vars

-----------------------------------------------------------------------------
(* ask on its own: a command, and a reply made of fragments.               *)

\* the commands ask is called with
AskValues == {<<"1", ".", "5">>, <<"R", "T", "O", "S">>}

AskCmds ==
    {dress_read(sGRPX, sFLD), dress_read(sGRPX, sACTN), sIDN,
     sREADc \o sREADc \o <<"X">>}
        \cup {dress_set(sGRPX, sFSET, v) : v \in AskValues}

\* what the instrument echoes of a command
echo(cmd) ==
    IF MatchAt(cmd, sREADc, 1) THEN sSTATc \o str_from(cmd, Len(sREADc))
    ELSE sSTATc \o cmd

\* the fragments a reply to cmd is made of
Fragments(cmd) ==
    {echo(cmd), sSTATc \o str_replace(cmd, sREADc, sEmpty), sColon, sVALID,
     sINVALID, <<"1", ".", "5">>, <<"X">>}

RepliesOf(cmd) ==
    {str_concat(parts) :
        parts \in UNION {[1..n -> Fragments(cmd)] : n \in 0..MaxParts}}

InitAsk ==
    /\ InitDriver({"none"}, SocketArguments, AtZero)
    /\ dev = [u \in DevUIDs |-> sHOLD]
    /\ \E cmd \in AskCmds : \E resp \in RepliesOf(cmd) :
          input = [cmd |-> cmd, resp |-> resp, den |-> 1]

\* self.ask(cmd), the transport answering resp
AskCall ==
    /\ op.name = "init"
    /\ op' = OpRec("ask", "A", <<>>, "", 0, "")
    /\ LET a == ask(input.cmd, input.resp)
       IN  Returns(Call(<<input.cmd>>, <<input.resp>>, a.logged,
                        IF a.raised = "none" THEN "ok" ELSE a.raised,
                        IF a.raised = "none" THEN StrValue(a.val) ELSE NoValue))
    /\ UNCHANGED <<slaves, dev, unsafe, writers, target, limits, pending,
                   input>>

SpecAsk == InitAsk /\ [][AskCall]_vars

-----------------------------------------------------------------------------
(* _signal_parser on its own: every response over a small alphabet.        *)

ParserResponses ==
    UNION {[1..n -> {"1", "5", ".", "-", "m", "A", ":"}] : n \in 0..MaxRespLen}

InitParser ==
    /\ InitDriver({"none"}, SocketArguments, AtZero)
    /\ dev = [u \in DevUIDs |-> sHOLD]
    /\ \E resp \in ParserResponses, den \in {1, 60} :
          input = [cmd |-> <<>>, resp |-> resp, den |-> den]

\* _signal_parser(our_scaling, response), our_scaling being 1 or 1/60
ParserCall ==
    /\ op.name = "init"
    /\ op' = OpRec("parse", "A", <<>>, "", 0, "")
    /\ LET v == _signal_parser(input.den, input.resp)
       IN  Returns(Call(<<>>, <<>>, 0,
                        IF v.raised = "none" THEN "ok" ELSE v.raised, v.value))
    /\ UNCHANGED <<slaves, dev, unsafe, writers, target, limits, pending,
                   input>>

SpecParser == InitParser /\ [][ParserCall]_vars

-----------------------------------------------------------------------------
(* The claims.                                                             *)

HasColon(u) == \E i \in 1..Len(u) : u[i] = ":"

\* the text of READ:DEV:<uid>:PSU:<cmd> and of SET:DEV:<uid>:PSU:<cmd>:<value>
ReadText(uid, cmd) ==
    sREAD \o sColon \o sDEV \o sColon \o uid \o sColon \o sPSU \o sColon \o cmd

SetText(uid, cmd, value) ==
    sSET \o sColon \o sDEV \o sColon \o uid \o sColon \o sPSU \o sColon
         \o cmd \o sColon \o value

\* the token of each status name
TokenOf(status) ==
    CASE status = "HOLD" -> sHOLD
      [] status = "TO SET" -> sRTOS
      [] status = "CLAMP" -> sCLMP
      [] status = "TO ZERO" -> sRTOZ

\* the positions of the SET commands among the commands of the last call
SetsSent == {i \in 1..Len(sent) : MatchAt(sent[i], sSET \o sColon, 1)}

\* the status the call read is CLAMP: the reply to its READ carries CLMP
ReadClamped ==
    replies[1] = sSTAT \o sColon \o sDEV \o sColon \o op.uid \o sColon \o sPSU
                       \o sColon \o sACTN \o sColon \o sCLMP

\* every SET of ACTN the instrument got came from the ramp_status sets of
\* one caller
SingleCaller == \E c \in Callers : writers \subseteq {c}

\* C1: a set of ramp_status first reads the status; it is refused with a
\* validation error, and no SET sent, exactly when the status read is CLAMP
\* and TO SET is asked for; otherwise exactly SET:DEV:<UID>:PSU:ACTN:<token>
\* is sent; so, with a single caller and an instrument whose status changes
\* only through these SETs, the instrument never receives ACTN:RTOS while
\* it holds CLMP.
C1_RampGuard ==
    /\ SingleCaller => ~unsafe
    /\ op.name = "set_ramp_status" =>
          /\ Len(sent) >= 1 /\ sent[1] = ReadText(op.uid, sACTN)
          /\ outcome = "pending" => Len(sent) = 1
          /\ outcome # "pending" =>
                /\ (outcome = "ValueError: clamped")
                      <=> (ReadClamped /\ op.status = "TO SET")
                /\ IF ReadClamped /\ op.status = "TO SET"
                   THEN SetsSent = {} /\ Len(sent) = 1
                   ELSE /\ SetsSent = {2} /\ Len(sent) = 2
                        /\ sent[2] = SetText(op.uid, sACTN,
                                             TokenOf(op.status))

C1_Witness ==
    /\ op.name = "set_ramp_status"
    /\ ReadClamped /\ op.status = "TO SET"
    /\ outcome = "ValueError: clamped"
    /\ dev[op.uid] = sCLMP
    /\ writers = {op.caller}

\* two callers inside _ramp_status_setter at once: one read HOLD, the other
\* clamped the axis meanwhile, and the first one's RTOS reached a clamped
\* instrument
Overtaken == unsafe /\ writers = Callers

FieldOK == field_limits(limits, target.x, target.y, target.z)

\* the components a target vector of the model can come to have
Reach == 2 * MaxField

\* C2: a target set evaluates the limits on a copy of the live vector with
\* the coordinate changed (x, y, z: that component replaced; r: the same
\* direction; rho: the same z and the same direction in the plane; theta: the
\* same r and the same direction in the plane; phi: the same z and rho);
\* refused, the call raises and the live vector is what it was before the
\* call; accepted, the live vector becomes that validated copy (the driver is
\* used by a single caller).
C2_ValidateThenCommit ==
    [][op'.name = "set_target" =>
          LET c == op'.param
              v == op'.num
              b == Ints(target)
              R == (0 - Reach)..Reach
              Verdict(w) ==
                  IF field_limits(limits, w.x, w.y, w.z)
                  THEN /\ outcome' = "pending"
                       /\ pending'["A"].call = "target"
                       /\ pending'["A"].valid_vec = w
                  ELSE /\ outcome' = "ValueError: field_limits"
                       /\ ~pending'["A"].busy
              Planar(ax, ay) ==
                  /\ ax * b.y = ay * b.x
                  /\ ax * b.x + ay * b.y >= 0
              Changed(a) ==
                  CASE c = "r" ->
                         /\ Norm2(a) = v * v
                         /\ a.y * b.z = a.z * b.y /\ a.z * b.x = a.x * b.z
                         /\ a.x * b.x + a.y * b.y + a.z * b.z >= 0
                    [] c = "rho" -> a.z = b.z /\ Rho2(a) = v * v
                    [] c = "theta" ->
                         /\ Norm2(a) = Norm2(b)
                         /\ (CASE v = 0 -> Rho2(a) = 0 /\ a.z >= 0
                               [] v = 90 -> a.z = 0
                               [] v = 180 -> Rho2(a) = 0 /\ a.z <= 0)
                    [] c = "phi" ->
                         /\ a.z = b.z /\ Rho2(a) = Rho2(b)
                         /\ (CASE v = 0 -> a.y = 0 /\ a.x >= 0
                               [] v = 90 -> a.x = 0 /\ a.y >= 0
                               [] v = 180 -> a.y = 0 /\ a.x <= 0
                               [] v = -90 -> a.x = 0 /\ a.y <= 0)
          IN  IF ~pending["A"].busy
              THEN /\ target' = target
                   /\ CASE c = "x" -> Verdict([target EXCEPT !.x = Whole(v)])
                        [] c = "y" -> Verdict([target EXCEPT !.y = Whole(v)])
                        [] c = "z" -> Verdict([target EXCEPT !.z = Whole(v)])
                        [] (c = "r" /\ v = 0) -> Verdict(Origin)
                        [] (c = "rho" /\ v = 0) ->
                             Verdict(Vector(Whole(0), Whole(0), target.z))
                        [] OTHER ->
                             /\ Integral(target)
                             /\ \E ax \in R, ay \in R :
                                   /\ c # "phi" => Planar(ax, ay)
                                   /\ \E az \in R :
                                         LET a == [x |-> ax, y |-> ay, z |-> az]
                                         IN  Changed(a) /\ Verdict(Rats(a))
              ELSE /\ outcome' = "ok"
                   /\ target' = pending["A"].valid_vec
                   /\ field_limits(limits, target'.x, target'.y, target'.z)
                   /\ ~pending'["A"].busy
      ]_vars

C2_Witness ==
    /\ op.name = "set_target"
    /\ outcome = "ValueError: field_limits"
    /\ FieldOK
    /\ op.param = "x" /\ op.num = 2 /\ limits = "ball"

\* two callers inside _set_target at once: each validated its own copy of
\* the live vector, and the two commits together leave a live vector that
\* neither validated and that is outside the limits
Raced ==
    /\ op.name = "set_target" /\ outcome = "ok"
    /\ ~FieldOK
    /\ \A c \in Callers : ~pending[c].busy

\* the calls the driver exposes: every get, the sets of the parameters that
\* have a setter, the target gets and sets
ExposedCall ==
    \/ op.name \in {"get", "get_ramp_status", "set_ramp_status", "get_target",
                    "set_target"}
    \/ op.name = "set" /\ op.param \in {"field_target", "field_ramp_rate", "ATOB"}

\* C3 as stated: every get or set the driver exposes makes exactly one
\* round trip on the transport.
C3_OneRoundTrip ==
    ExposedCall /\ outcome # "pending" => Len(sent) = 1 /\ Len(replies) = 1

\* C3, amended: a get of a sub-supply parameter, and a set of one other than
\* ramp_status, makes exactly one round trip; a set of ramp_status makes one
\* READ round trip, after which the caller waits and calls of other callers
\* may come in between, and then, unless the read raised or the set is
\* refused, one SET round trip; a target get or set makes none, and an
\* accepted target set waits between its validation and its commit.
C3_RoundTrips ==
    /\ Len(replies) = Len(sent)
    /\ ExposedCall /\ op.name \in {"get", "get_ramp_status", "set"} =>
          Len(sent) = 1
    /\ op.name = "set_ramp_status" =>
          /\ sent[1] = ReadText(op.uid, sACTN)
          /\ (outcome = "pending") <=> pending[op.caller].call = "ramp_status"
          /\ IF outcome \in {"pending", "KeyError", "ValueError: clamped"}
             THEN Len(sent) = 1
             ELSE /\ Len(sent) = 2
                  /\ sent[2] = SetText(op.uid, sACTN, TokenOf(op.status))
    /\ op.name \in {"get_target", "set_target"} => sent = <<>>
    /\ op.name = "set_target" =>
          (outcome = "pending") <=> pending[op.caller].call = "target"

\* a set of ramp_status has made its two round trips while the other caller
\* is between the validation and the commit of a target set
C3_Witness ==
    /\ op.name = "set_ramp_status" /\ Len(sent) = 2 /\ outcome = "ok"
    /\ \E c \in Callers \ {op.caller} : pending[c].call = "target"

\* C4 as stated: a set of the target current to v sends
\* SET:DEV:<UID>:PSU:SIG:CSET:<v>, as a set of the target field sends
\* SET:DEV:<UID>:PSU:SIG:FSET:<v>.
C4_BothSettable ==
    /\ op.name = "set" /\ op.param = "current_target" =>
          sent = <<SetText(op.uid, sCSET, int_format(op.num))>>
    /\ op.name = "set" /\ op.param = "field_target" =>
          sent = <<SetText(op.uid, sFSET, int_format(op.num))>>

\* C4, amended: the target current has a get only (READ ... SIG:CSET) and a
\* set of it sends nothing; the target field has a get (READ ... SIG:FSET)
\* and a set, which sends SET:DEV:<UID>:PSU:SIG:FSET:<v>.
C4_TargetParameters ==
    /\ op.name = "set" /\ op.param = "current_target" =>
          sent = <<>> /\ outcome = "NotSettable"
    /\ op.name = "set" /\ op.param = "field_target" =>
          sent = <<SetText(op.uid, sFSET, int_format(op.num))>>
    /\ op.name = "get" /\ op.param = "current_target" =>
          sent = <<ReadText(op.uid, sCSET)>>
    /\ op.name = "get" /\ op.param = "field_target" =>
          sent = <<ReadText(op.uid, sFSET)>>

C4_Witness ==
    /\ op.name = "set" /\ op.param = "current_target"
    /\ outcome = "NotSettable" /\ op.num = 1

\* the reply is one the instrument marks INVALID
Rejected(resp) == \E i \in 1..Len(resp) : MatchAt(resp, sINVALID, i)

\* C5: a reply holding INVALID anywhere, also at its end, is logged as an
\* error, raises nothing and is returned as it is.
C5_InvalidReply ==
    op.name = "ask" /\ Rejected(input.resp) =>
        /\ outcome = "ok"
        /\ logged = 1
        /\ result = StrValue(input.resp)

C5_Witness ==
    /\ op.name = "ask"
    /\ str_endswith(input.resp, sColon \o sINVALID)
    /\ Len(str_split(input.resp, ":")) >= 3
    /\ result = StrValue(input.resp)

\* the text between the last two colons of resp (from its start when it has
\* one colon only)
Colons(resp) == {i \in 1..Len(resp) : resp[i] = ":"}
Largest(S) == CHOOSE i \in S : \A j \in S : j <= i
FieldBeforeLast(resp) ==
    LET last == Largest(Colons(resp))
        earlier == {i \in Colons(resp) : i < last}
        prev == IF earlier = {} THEN 0 ELSE Largest(earlier)
    IN  SubSeq(resp, prev + 1, last - 1)

Acknowledged(resp) == ~Rejected(resp) /\ str_endswith(resp, sVALID)

\* C6 as stated: for every reply without INVALID that ends with VALID, ask
\* returns the second-to-last colon-delimited field.
C6_EveryAck ==
    op.name = "ask" /\ Acknowledged(input.resp) =>
        /\ outcome = "ok"
        /\ Colons(input.resp) # {} =>
              result = StrValue(FieldBeforeLast(input.resp))

\* C6, amended: for every reply without INVALID that ends with VALID and
\* holds a colon, ask returns the second-to-last colon-delimited field, so
\* <VALUE> for the reply STAT:<command>:VALID to SET:...:<VALUE>; for such a
\* reply without a colon ask raises IndexError.
C6_SetAck ==
    op.name = "ask" /\ Acknowledged(input.resp) =>
        /\ IF Colons(input.resp) # {}
           THEN /\ outcome = "ok"
                /\ result = StrValue(FieldBeforeLast(input.resp))
           ELSE outcome = "IndexError"
        /\ \A v \in AskValues :
              /\ input.cmd = SetText(sGRPX, sFSET, v)
              /\ input.resp = sSTATc \o input.cmd \o sColon \o sVALID
              => result = StrValue(v)

C6_Witness ==
    /\ op.name = "ask"
    /\ input.cmd = SetText(sGRPX, sFSET, <<"1", ".", "5">>)
    /\ input.resp = sSTATc \o input.cmd \o sColon \o sVALID
    /\ result = StrValue(<<"1", ".", "5">>)

\* the echo ask removes from the reply to cmd
EchoOf(cmd) == sSTATc \o str_replace(cmd, sREADc, sEmpty)

Occurrences(resp, p) == {i \in 1..Len(resp) : MatchAt(resp, p, i)}

\* the occurrences of p in resp taken from the left, none overlapping one
\* taken before
RECURSIVE TakenFrom(_, _, _)
TakenFrom(resp, p, i) ==
    LET later == {j \in Occurrences(resp, p) : j >= i}
    IN  IF later = {} THEN {}
        ELSE LET first == CHOOSE j \in later : \A k \in later : j <= k
             IN  {first} \cup TakenFrom(resp, p, first + Len(p))

\* resp without the characters of the occurrences taken
Without(resp, p) ==
    LET taken == TakenFrom(resp, p, 1)
        kept(i) == \A j \in taken : i < j \/ i >= j + Len(p)
    IN  SelectSeq([i \in 1..Len(resp) |-> <<i, resp[i]>>],
                  LAMBDA e : kept(e[1]))

Chars(pairs) == [i \in 1..Len(pairs) |-> pairs[i][2]]

IsRead(resp) == ~Rejected(resp) /\ ~str_endswith(resp, sVALID)

\* C7 as stated: for a reply that is neither INVALID nor an acknowledgment,
\* ask returns the reply with the prefix STAT:<command without READ:>
\* removed from its start and the rest left as it is, also when the echo
\* occurs again later or the reply does not start with it.
C7_PrefixOnly ==
    op.name = "ask" /\ IsRead(input.resp) =>
        LET p == EchoOf(input.cmd)
        IN  result = StrValue(IF MatchAt(input.resp, p, 1)
                              THEN str_from(input.resp, Len(p))
                              ELSE input.resp)

\* C7, amended: ask returns the reply with every occurrence of
\* STAT:<command without its READ:s> removed, taken from the left without
\* overlap; that is the reply without its prefix when the echo occurs at the
\* start and nowhere else, and the reply itself when the echo does not occur.
C7_EveryEcho ==
    op.name = "ask" /\ IsRead(input.resp) =>
        LET p == EchoOf(input.cmd)
            occ == Occurrences(input.resp, p)
        IN  /\ outcome = "ok"
            /\ result.kind = "str"
            /\ result.str = Chars(Without(input.resp, p))
            /\ occ = {1} => result.str = str_from(input.resp, Len(p))
            /\ occ = {} => result.str = input.resp

C7_Witness ==
    /\ op.name = "ask" /\ IsRead(input.resp)
    /\ Cardinality(Occurrences(input.resp, EchoOf(input.cmd))) = 2
    /\ result.str = <<"X">>

\* the leading run of numeric characters of s
RECURSIVE LeadingRun(_)
LeadingRun(s) ==
    IF s = <<>> \/ Head(s) \notin {"0", "1", "2", "3", "4", "5", "6", "7",
                                   "8", "9", ".", "-"}
    THEN <<>>
    ELSE <<Head(s)>> \o LeadingRun(Tail(s))

\* the power of ten of the scale a suffix starts with
SuffixExp(suffix) ==
    IF suffix = <<>> THEN 0
    ELSE CASE suffix[1] = "n" -> -9
           [] suffix[1] = "u" -> -6
           [] suffix[1] = "m" -> -3
           [] suffix[1] = "k" -> 3
           [] suffix[1] = "M" -> 6
           [] OTHER -> 0

\* C8: with the colons removed, the numeric token is the leading run of
\* digits, '.' and '-', the suffix is what follows it, the scale is that of
\* the suffix's first character, and the result is token x scale x caller
\* scale; the parse fails when the token is no real number; also for replies
\* with numeric characters after the first other character.
C8_LeadingToken ==
    op.name = "parse" =>
        LET response == SelectSeq(input.resp, LAMBDA c : c # ":")
            token == LeadingRun(response)
            suffix == SubSeq(response, Len(token) + 1, Len(response))
            f == py_float(token)
        IN  IF ~f.ok THEN outcome = "ValueError: float"
            ELSE /\ outcome = "ok"
                 /\ result = NumValue(f.mant,
                                      IF f.mant = 0 THEN 0
                                      ELSE f.exp + SuffixExp(suffix),
                                      input.den)

\* the fields of a command, and the text of its fields from the fifth on
FieldsOf(cmd) == str_split(cmd, ":")
CommandPart(f, last) == str_join(sColon, SubSeq(f, 5, last))

ReadCommands ==
    {sVOLT, sCURR, sPCUR, sCSET, sFSET, sRCST, sRFST, sFLD, sPFLD, sATOB, sACTN}
SetCommands == {sFSET, sRFST, sATOB, sACTN}

\* cmd is READ:DEV:<uid>:PSU:<CMD> or SET:DEV:<uid>:PSU:<CMD>:<VALUE>
WellFormed(cmd, uid) ==
    LET f == FieldsOf(cmd)
    IN  /\ Len(f) >= 5
        /\ f[2] = sDEV /\ f[3] = uid /\ f[4] = sPSU
        /\ \/ f[1] = sREAD /\ CommandPart(f, Len(f)) \in ReadCommands
           \/ /\ f[1] = sSET /\ Len(f) >= 6
              /\ CommandPart(f, Len(f) - 1) \in SetCommands

\* C9: a sub-supply constructed with a UID that holds a colon fails before
\* it is registered or anything is sent, one without a colon is accepted; so
\* every command a sub-supply sends is READ:DEV:<UID>:PSU:<CMD> or
\* SET:DEV:<UID>:PSU:<CMD>:<VALUE> with a UID field without a colon.
C9_UidWithoutColon ==
    /\ op.name = "add_slave" =>
          /\ sent = <<>>
          /\ IF HasColon(op.uid)
             THEN outcome = "ValueError: UID" /\ op.uid \notin slaves
             ELSE outcome = "ok" /\ op.uid \in slaves
    /\ \A u \in slaves : ~HasColon(u)
    /\ op.name # "init" =>
          \A i \in 1..Len(sent) :
              op.uid \in slaves /\ WellFormed(sent[i], op.uid)
    /\ op.name = "init" =>
          \A i \in 1..Len(sent) :
              \/ i = 4 /\ sent[i] = sIDN
              \/ \E u \in slaves : WellFormed(sent[i], u)

C9_Witness ==
    /\ op.name = "add_slave"
    /\ HasColon(op.uid)
    /\ outcome = "ValueError: UID"
    /\ Cardinality(slaves) = 4

\* C10 as stated: in every state reached from construction by target sets,
\* the live target vector satisfies the field limits.
C10_AlwaysWithinLimits == FieldOK

\* C10, amended: the live target vector satisfies the field limits after
\* every accepted target set, and once it satisfies them it does so in every
\* later state; the vector the axes report at construction need not (the
\* driver is used by a single caller).
C10_WithinLimitsOnceSet ==
    /\ [](op.name = "set_target" /\ outcome = "ok" => FieldOK)
    /\ [][FieldOK => FieldOK']_vars

C10_Witness ==
    /\ op.name = "set_target" /\ outcome = "ok"
    /\ limits = "ball" /\ op.param = "r"
    /\ Integral(target) /\ Norm2(Ints(target)) = 1

====
